---- MODULE Spec2Model ----
(***************************************************************************)
(* Model of the segmented budget engine of the finance bot (src/main.py):  *)
(* the segment calendar (BudgetCalculator.get_segment_info), the ledger    *)
(* tables (DatabaseManager), the allowance calculator                      *)
(* (calculate_daily_summary, calculate_segment_summary), the command       *)
(* handlers that write the tables and the daily rebalancer                 *)
(* (send_daily_notification).                                              *)
(*                                                                         *)
(* Money is counted in cents: every stored amount is a DECIMAL(10, 2)      *)
(* column.  A date is a record [year, month, day].                         *)
(***************************************************************************)
EXTENDS Integers, Sequences, FiniteSets, TLC

VARIABLES
    today,      \* get_current_date(): the calendar date in GMT+7
    users,      \* table users: the ids registered by get_or_create_user
    budgets,    \* table budgets: user id -> row, or NoBudget
    expenses,   \* table expenses: rows in insertion order
    reply,      \* what the last step replied to a command ("none": no command)
    pc,         \* send_daily_notification: "idle", "loop" or "send"
    queue,      \* send_daily_notification: the users still to process
    cur,        \* send_daily_notification: the user whose message is being sent
    jobToday,   \* send_daily_notification: its local variable today
    outcome,    \* send_daily_notification: how each iteration of the loop ended
    runs,       \* history: how often (0, 1, 2 for more) the job has rewritten the
                \* user's adjustment since the user's last write and the last
                \* change of date
    arg,        \* the date handed to get_segment_info
    ret         \* what get_segment_info returned for arg, None before the call

vars == <<today, users, budgets, expenses, reply, pc, queue, cur, jobToday,
          outcome, runs, arg, ret>>

progVars == <<today, users, budgets, expenses, reply, pc, queue, cur, jobToday,
              outcome, runs>>

-----------------------------------------------------------------------------
(* Bounds of the model *)

YearSpan == 1       \* the calendar is explored over 2023 .. 2023 + YearSpan
MaxExpenses == 2    \* rows the expenses table may hold

Years == 2023 .. (2023 + YearSpan)
UserIds == {1, 2}   \* the ids of the users table

-----------------------------------------------------------------------------
(* datetime.date and datetime.timedelta *)

\* what stands for a date that could not be built: date.replace raised
\* ValueError
ValueError == [year |-> 0, month |-> 0, day |-> 0]

IsLeap(y) == (y % 4 = 0) /\ ((y % 100 # 0) \/ (y % 400 = 0))

DaysInMonth(y, m) ==
    IF m = 2 THEN (IF IsLeap(y) THEN 29 ELSE 28)
    ELSE IF m \in {4, 6, 9, 11} THEN 30 ELSE 31

Date(y, m, d) == [year |-> y, month |-> m, day |-> d]

\* date.replace(day=n): ValueError when the month has no such day
Replace(date, n) ==
    IF n >= 1 /\ n <= DaysInMonth(date.year, date.month)
    THEN [date EXCEPT !.day = n]
    ELSE ValueError

NextDay(date) ==
    IF date.day < DaysInMonth(date.year, date.month)
    THEN [date EXCEPT !.day = date.day + 1]
    ELSE IF date.month < 12
         THEN Date(date.year, date.month + 1, 1)
         ELSE Date(date.year + 1, 1, 1)

PrevDay(date) ==
    IF date.day > 1
    THEN [date EXCEPT !.day = date.day - 1]
    ELSE IF date.month > 1
         THEN Date(date.year, date.month - 1, DaysInMonth(date.year, date.month - 1))
         ELSE Date(date.year - 1, 12, 31)

RECURSIVE AddDays(_, _)
\* date + timedelta(days=n), n of either sign
AddDays(date, n) ==
    IF n = 0 THEN date
    ELSE IF n > 0 THEN AddDays(NextDay(date), n - 1)
    ELSE AddDays(PrevDay(date), n + 1)

\* the days of year y before the first of month m
DaysBeforeMonth(y, m) ==
    <<0, 31, 59, 90, 120, 151, 181, 212, 243, 273, 304, 334>>[m]
        + (IF m > 2 /\ IsLeap(y) THEN 1 ELSE 0)

\* date.toordinal(): the day number in the proleptic Gregorian calendar
ToOrdinal(date) ==
    LET y == date.year - 1
    IN  365 * y + (y \div 4) - (y \div 100) + (y \div 400)
        + DaysBeforeMonth(date.year, date.month) + date.day

\* (a - b).days
DaysBetween(a, b) == ToOrdinal(a) - ToOrdinal(b)

DateLE(a, b) == ToOrdinal(a) <= ToOrdinal(b)

\* expense_date BETWEEN lo AND hi
Between(d, lo, hi) == DateLE(lo, d) /\ DateLE(d, hi)

-----------------------------------------------------------------------------
(* BudgetCalculator.get_segment_info *)

last_day_of_month_short(date) ==
    LET next_month == AddDays(Replace(date, 28), 3)
    IN  AddDays(next_month, 0 - next_month.day).day

\* end_day of the third segment: the last day of the month of date
last_day_of_month(date) ==
    LET next_month == AddDays(Replace(date, 28), 4)
    IN  AddDays(next_month, 0 - next_month.day).day

segment_case_lt(date) ==
    LET day == date.day
    IN  IF day < 10
        THEN [segment |-> 1, start_day |-> 1, end_day |-> 10]
        ELSE IF day <= 20
        THEN [segment |-> 2, start_day |-> 11, end_day |-> 20]
        ELSE [segment |-> 3, start_day |-> 21, end_day |-> last_day_of_month(date)]

\* the if / elif / else on date.day
segment_case(date) ==
    LET day == date.day
    IN  IF day <= 10
        THEN [segment |-> 1, start_day |-> 1, end_day |-> 10]
        ELSE IF day <= 20
        THEN [segment |-> 2, start_day |-> 11, end_day |-> 20]
        ELSE [segment |-> 3, start_day |-> 21, end_day |-> last_day_of_month(date)]

days_remaining_exclusive(end_date, date) == DaysBetween(end_date, date)

\* days_remaining = (end_date - date).days + 1
days_remaining_of(end_date, date) == DaysBetween(end_date, date) + 1

days_passed_exclusive(days_in_segment, days_remaining) ==
    days_in_segment - days_remaining

\* 'days_passed': days_in_segment - days_remaining + 1
days_passed_of(days_in_segment, days_remaining) ==
    days_in_segment - days_remaining + 1

\* what stands for get_segment_info raising the ValueError of date.replace
SegmentError ==
    [segment |-> 0, start_date |-> ValueError, end_date |-> ValueError,
     days_in_segment |-> 0, days_remaining |-> 0, days_passed |-> 0]

get_segment_info(date) ==
    LET c == segment_case(date)
        start_date == Replace(date, c.start_day)
        end_date == Replace(date, c.end_day)
    IN  IF start_date = ValueError \/ end_date = ValueError
        THEN SegmentError
        ELSE LET days_in_segment == DaysBetween(end_date, start_date) + 1
                 days_remaining == days_remaining_of(end_date, date)
             IN  [segment |-> c.segment,
                  start_date |-> start_date,
                  end_date |-> end_date,
                  days_in_segment |-> days_in_segment,
                  days_remaining |-> days_remaining,
                  days_passed |-> days_passed_of(days_in_segment, days_remaining)]

-----------------------------------------------------------------------------
(* The calendar explored on its own: every date of Years *)

CalendarDates ==
    { dt \in { Date(y, m, d) : y \in Years, m \in 1 .. 12, d \in 1 .. 31 } :
        dt.day <= DaysInMonth(dt.year, dt.month) }

MonthOf(date) ==
    { Date(date.year, date.month, d) : d \in 1 .. DaysInMonth(date.year, date.month) }

-----------------------------------------------------------------------------
(* Decimal values *)

\* a token of context.args: a numeral (its value in cents) or other text
Tok(n) == [numeric |-> TRUE, cents |-> n]
Junk == [numeric |-> FALSE, cents |-> 0]

\* a Decimal quotient a / b, kept exact: the context precision of 28 digits
\* is beyond the integers explored here
Quot(a, b) == [num |-> a, den |-> b]
DecimalZero == Quot(0, 1)
QuotEq(p, q) == p.num * q.den = q.num * p.den
QuotLT(p, q) == p.num * q.den < q.num * p.den

Abs(n) == IF n < 0 THEN 0 - n ELSE n

\* a Decimal stored into a DECIMAL(10, 2) column is rounded to a whole
\* number of cents, ties away from zero
RoundCents(q) ==
    LET m == (2 * Abs(q.num) + q.den) \div (2 * q.den)
    IN  IF q.num < 0 THEN 0 - m ELSE m

\* truth value of a Decimal read back: Decimal(0) is false.  (None is false
\* too, but set_budget leaves no NULL in a row it inserts.)
Truthy(x) == x # 0

-----------------------------------------------------------------------------
(* DatabaseManager *)

\* A value that may be absent is a sequence of length 0 or 1: None is <<>>.
None == <<>>
Some(x) == <<x>>
Get(opt) == opt[1]

\* budgets[user_id] is what fetchone() gives for the row of user_id
NoBudget == None

get_budget(user_id) == budgets[user_id]

\* INSERT ... ON CONFLICT (user_id) DO UPDATE: the row of user_id afterwards
set_budget(user_id, budget_per_day, base_amount) ==
    IF budgets[user_id] = NoBudget
    THEN Some([budget_per_day |-> budget_per_day,
               base_amount |-> base_amount,
               adjusted_daily |-> budget_per_day,
               last_adjustment_date |-> today,
               updated_at |-> today])
    ELSE Some([Get(budgets[user_id]) EXCEPT !.budget_per_day = budget_per_day,
                                            !.base_amount = base_amount,
                                            !.updated_at = today])

update_adjusted_daily_touching_updated_at(user_id, adjusted_daily, adjustment_date) ==
    IF budgets[user_id] = NoBudget
    THEN NoBudget
    ELSE Some([Get(budgets[user_id]) EXCEPT
                   !.adjusted_daily = RoundCents(adjusted_daily),
                   !.last_adjustment_date = adjustment_date,
                   !.updated_at = adjustment_date])

\* UPDATE budgets SET adjusted_daily, last_adjustment_date WHERE user_id
update_adjusted_daily(user_id, adjusted_daily, adjustment_date) ==
    IF budgets[user_id] = NoBudget
    THEN NoBudget
    ELSE Some([Get(budgets[user_id]) EXCEPT
                   !.adjusted_daily = RoundCents(adjusted_daily),
                   !.last_adjustment_date = adjustment_date])

\* INSERT INTO expenses
add_expense(user_id, amount, expense_date) ==
    Append(expenses, [user_id |-> user_id, amount |-> amount,
                      expense_date |-> expense_date])

RECURSIVE SumAmounts(_)
SumAmounts(rows) ==
    IF rows = <<>> THEN 0 ELSE Head(rows).amount + SumAmounts(Tail(rows))

get_total_spent_any_date(user_id, start_date, end_date) ==
    SumAmounts(SelectSeq(expenses, LAMBDA e : e.user_id = user_id))

get_total_spent_all_users(user_id, start_date, end_date) ==
    SumAmounts(SelectSeq(expenses,
        LAMBDA e : Between(e.expense_date, start_date, end_date)))

\* SELECT COALESCE(SUM(amount), 0) ... WHERE user_id AND expense_date BETWEEN
get_total_spent(user_id, start_date, end_date) ==
    SumAmounts(SelectSeq(expenses,
        LAMBDA e : e.user_id = user_id
                   /\ Between(e.expense_date, start_date, end_date)))

-----------------------------------------------------------------------------
(* BudgetCalculator.calculate_daily_summary, calculate_segment_summary *)

current_daily_budget_ignoring_date(budget) ==
    IF Truthy(budget.adjusted_daily)
    THEN budget.adjusted_daily
    ELSE budget.budget_per_day

\* adjusted_daily if it is true and was set today, else budget_per_day
current_daily_budget_of(budget) ==
    IF Truthy(budget.adjusted_daily) /\ budget.last_adjustment_date = today
    THEN budget.adjusted_daily
    ELSE budget.budget_per_day

calculate_daily_summary_none_when_overspent(user_id) ==
    LET budget == get_budget(user_id)
        total_spent_today == get_total_spent(user_id, today, today)
        remaining_today == current_daily_budget_of(Get(budget)) - total_spent_today
    IN  IF budget = NoBudget \/ remaining_today < 0
        THEN None
        ELSE Some(
             [date |-> today,
              budget_per_day |-> Get(budget).budget_per_day,
              current_daily_budget |-> current_daily_budget_of(Get(budget)),
              spent_today |-> total_spent_today,
              remaining_today |-> remaining_today])

calculate_daily_summary(user_id) ==
    LET budget == get_budget(user_id)
        total_spent_today == get_total_spent(user_id, today, today)
    IN  IF budget = NoBudget
        THEN None
        ELSE Some(
             [date |-> today,
              budget_per_day |-> Get(budget).budget_per_day,
              current_daily_budget |-> current_daily_budget_of(Get(budget)),
              spent_today |-> total_spent_today,
              remaining_today |->
                  current_daily_budget_of(Get(budget)) - total_spent_today])

suggested_daily_including_today(remaining_segment, days_remaining) ==
    IF days_remaining > 0
    THEN Quot(remaining_segment, days_remaining)
    ELSE DecimalZero

\* remaining_segment / (days_remaining - 1) if that is > 0 else Decimal(0)
suggested_daily_of(remaining_segment, days_remaining) ==
    LET days_remaining_from_tomorrow == days_remaining - 1
    IN  IF days_remaining_from_tomorrow > 0
        THEN Quot(remaining_segment, days_remaining_from_tomorrow)
        ELSE DecimalZero

calculate_segment_summary(user_id) ==
    LET segment_info == get_segment_info(today)
        budget == get_budget(user_id)
        segment_budget == Get(budget).base_amount
        total_spent_segment ==
            get_total_spent(user_id, segment_info.start_date, segment_info.end_date)
        remaining_segment == segment_budget - total_spent_segment
    IN  IF budget = NoBudget
        THEN None
        ELSE Some(
             [segment |-> segment_info.segment,
              start_date |-> segment_info.start_date,
              end_date |-> segment_info.end_date,
              days_in_segment |-> segment_info.days_in_segment,
              days_remaining |-> segment_info.days_remaining,
              days_passed |-> segment_info.days_passed,
              segment_budget |-> segment_budget,
              spent_segment |-> total_spent_segment,
              remaining_segment |-> remaining_segment,
              suggested_daily |->
                  suggested_daily_of(remaining_segment, segment_info.days_remaining),
              target_daily |-> Get(budget).budget_per_day,
              current_daily_budget |-> current_daily_budget_of(Get(budget)),
              days_remaining_from_tomorrow |-> segment_info.days_remaining - 1])

-----------------------------------------------------------------------------
(* DatabaseManager.check_segment_reset *)

check_segment_reset_segment_only(user_id) ==
    IF budgets[user_id] = NoBudget
    THEN FALSE
    ELSE get_segment_info(today).segment
             # get_segment_info(Get(budgets[user_id]).updated_at).segment

check_segment_reset(user_id) ==
    IF budgets[user_id] = NoBudget
    THEN FALSE
    ELSE LET last_update == Get(budgets[user_id]).updated_at
             today_segment == get_segment_info(today).segment
             last_segment == get_segment_info(last_update).segment
         IN  today_segment # last_segment \/ today.month # last_update.month

-----------------------------------------------------------------------------
(* Inputs explored *)

\* the dates the clock takes: day 6 of a first segment (5 days remain), the
\* last day of the first segment of the next month, and the first day of
\* the first segment of the same month a year later
ClockDates ==
    { Date(2024, 2, 6), Date(2024, 3, 10), Date(2025, 2, 1) }

\* context.args of /setbudget: 5 and 50, 2 and 30.01, a zero amount, text
\* that is no number, one argument too few
BudgetArgs ==
    { <<Tok(500), Tok(5000)>>, <<Tok(200), Tok(3001)>>,
      <<Tok(0), Tok(5000)>>, <<Junk, Tok(5000)>>, <<Tok(500)>> }

\* context.args of /add: 30, text that is no number, no argument
ExpenseArgs ==
    { <<Tok(3000)>>, <<Junk>>, <<>> }

\* the arguments explored where two users hold budgets
FewBudgetArgs == { <<Tok(500), Tok(5000)>>, <<Tok(500), Tok(0 - 100)>> }
FewExpenseArgs == { <<Tok(3000)>>, <<Tok(0)>> }

\* the orders in which SELECT * FROM users may return the rows of S
Orderings(S) ==
    { q \in [1 .. Cardinality(S) -> S] :
        \A i, j \in 1 .. Cardinality(S) : q[i] = q[j] => i = j }

-----------------------------------------------------------------------------
(* Initial state: the tables as init_database creates them *)

InitProgram ==
    /\ today \in ClockDates
    /\ users = {}
    /\ budgets = [u \in UserIds |-> NoBudget]
    /\ expenses = <<>>
    /\ reply = "none"
    /\ pc = "idle"
    /\ queue = <<>>
    /\ cur = None
    /\ jobToday = None
    /\ outcome = [u \in UserIds |-> "none"]
    /\ runs = [u \in UserIds |-> 0]

Init ==
    /\ InitProgram
    /\ arg = Date(2024, 1, 1)
    /\ ret = None

rebalancerVars == <<pc, queue, cur, jobToday, outcome>>

-----------------------------------------------------------------------------
(* Command handlers.  The handlers and the daily job are coroutines of one *)
(* event loop, and the database calls block: a handler awaits nothing      *)
(* before its reply, so it is one step, and it runs only while the job is  *)
(* not running or is suspended in its await.                               *)

LoopFree_preemptive == TRUE

LoopFree == pc \in {"idle", "send"}

\* set_budget_command
SetBudget(u, args) ==
    /\ LoopFree
    /\ users' = users \cup {u}
    /\ IF Len(args) < 2
       THEN /\ reply' = "usage"
            /\ UNCHANGED <<budgets, runs>>
       ELSE IF ~args[1].numeric \/ ~args[2].numeric
       THEN \* Decimal(...) raises decimal.InvalidOperation, which is neither
            \* ValueError nor IndexError: the except clause does not apply
            /\ reply' = "exception"
            /\ UNCHANGED <<budgets, runs>>
       ELSE IF args[1].cents <= 0 \/ args[2].cents <= 0
       THEN /\ reply' = "invalid"
            /\ UNCHANGED <<budgets, runs>>
       ELSE /\ budgets' = [budgets EXCEPT
                              ![u] = set_budget(u, args[1].cents, args[2].cents)]
            /\ runs' = [runs EXCEPT ![u] = 0]
            /\ reply' = "done"
    /\ UNCHANGED <<today, expenses, rebalancerVars, arg, ret>>

\* add_expense_command
AddExpense(u, args) ==
    /\ LoopFree
    /\ users' = users \cup {u}
    /\ UNCHANGED <<today, budgets, rebalancerVars, arg, ret>>
    /\ IF Len(args) < 1
       THEN /\ reply' = "usage"
            /\ UNCHANGED <<expenses, runs>>
       ELSE IF ~args[1].numeric
       THEN /\ reply' = "exception"
            /\ UNCHANGED <<expenses, runs>>
       ELSE /\ Len(expenses) < MaxExpenses
            /\ expenses' = add_expense(u, args[1].cents, today)
            /\ runs' = [runs EXCEPT ![u] = 0]
            /\ reply' = "done"

\* today_summary
TodaySummary(u) ==
    /\ LoopFree
    /\ users' = users \cup {u}
    /\ reply' = IF calculate_daily_summary(u) = None
                THEN "not_configured" ELSE "done"
    /\ UNCHANGED <<today, budgets, expenses, runs, rebalancerVars, arg, ret>>

\* segment_summary
SegmentSummary(u) ==
    /\ LoopFree
    /\ users' = users \cup {u}
    /\ LET is_new_segment == check_segment_reset(u)
           segment == calculate_segment_summary(u)
       IN  reply' = IF segment = None THEN "not_configured"
                    ELSE IF is_new_segment /\ Get(segment).days_passed <= 2
                    THEN "done_new_segment" ELSE "done"
    /\ UNCHANGED <<today, budgets, expenses, runs, rebalancerVars, arg, ret>>

-----------------------------------------------------------------------------
(* send_daily_notification.  It yields only at await bot.send_message.     *)

\* which of the four texts is built for new_daily_budget
message_kind(budget, new_daily_budget) ==
    IF Get(jobToday).day \in {1, 11, 21} THEN "segment_start"
    ELSE IF QuotLT(new_daily_budget, Quot(budget.budget_per_day, 1)) THEN "down"
    ELSE IF QuotLT(Quot(budget.budget_per_day, 1), new_daily_budget) THEN "up"
    ELSE "same"

new_daily_budget_carry(user_id, segment) ==
    LET budget == Get(get_budget(user_id))
        yesterday == AddDays(Get(jobToday), 0 - 1)
        spent_yesterday == get_total_spent(user_id, yesterday, yesterday)
        yesterday_budget == IF Truthy(budget.adjusted_daily)
                            THEN budget.adjusted_daily ELSE budget.budget_per_day
    IN  Quot(budget.budget_per_day + yesterday_budget - spent_yesterday, 1)

new_daily_budget_from_tomorrow(user_id, segment) == segment.suggested_daily

\* new_daily_budget = segment['remaining_segment'] / days_remaining
new_daily_budget_of(user_id, segment) ==
    Quot(segment.remaining_segment, segment.days_remaining)

\* SELECT * FROM users; today = get_current_date()
StartRebalance ==
    /\ pc = "idle"
    /\ pc' = "loop"
    /\ queue' \in Orderings(users)
    /\ jobToday' = Some(today)
    /\ outcome' = [u \in UserIds |-> IF u \in users THEN "pending" ELSE "none"]
    /\ cur' = None
    /\ UNCHANGED <<today, users, budgets, expenses, runs, arg, ret>>
    /\ reply' = "none"

\* after an iteration that ended with outcome o for the head of the queue
next_user(o) ==
    /\ outcome' = [outcome EXCEPT ![Head(queue)] = o]
    /\ queue' = Tail(queue)

after_exception_abort(rest) == <<>>

\* the users still to process once an iteration has raised: the except
\* clause is inside the for loop, which goes on
after_exception(rest) == rest

on_exception(o) ==
    /\ outcome' = [outcome EXCEPT ![Head(queue)] = o]
    /\ queue' = after_exception(Tail(queue))

\* one iteration of the for loop up to the await; fault is where the
\* ledger store raises, if it does
ProcessUser(fault) ==
    /\ pc = "loop"
    /\ queue # <<>>
    /\ LET u == Head(queue)
           budget == get_budget(u)
           segment == calculate_segment_summary(u)
       IN  IF fault = "read"
           THEN /\ on_exception("error")
                /\ UNCHANGED <<pc, cur, budgets, runs>>
           ELSE IF budget = NoBudget \/ segment = None
           THEN /\ next_user("no_budget")
                /\ UNCHANGED <<pc, cur, budgets, runs>>
           ELSE IF Get(segment).days_remaining <= 0
           THEN /\ next_user("no_days")
                /\ UNCHANGED <<pc, cur, budgets, runs>>
           ELSE IF fault = "write"
           THEN /\ on_exception("error")
                /\ UNCHANGED <<pc, cur, budgets, runs>>
           ELSE /\ budgets' = [budgets EXCEPT ![u] =
                       update_adjusted_daily(u,
                           new_daily_budget_of(u, Get(segment)), Get(jobToday))]
                /\ runs' = [runs EXCEPT ![u] = IF runs[u] = 0 THEN 1 ELSE 2]
                /\ next_user("sending")
                /\ cur' = Some([user |-> u,
                                kind |-> message_kind(Get(budget),
                                    new_daily_budget_of(u, Get(segment)))])
                /\ pc' = "send"
    /\ UNCHANGED <<today, users, expenses, jobToday, arg, ret>>
    /\ reply' = "none"

\* await context.bot.send_message returns, or raises into the except clause
CompleteSend(delivered) ==
    /\ pc = "send"
    /\ outcome' = [outcome EXCEPT ![Get(cur).user] =
                       IF delivered THEN "sent" ELSE "send_error"]
    /\ pc' = "loop"
    /\ cur' = None
    /\ queue' = IF delivered THEN queue ELSE after_exception(queue)
    /\ UNCHANGED <<today, users, budgets, expenses, runs,
                   jobToday, arg, ret>>
    /\ reply' = "none"

\* the for loop is over: the function returns and its locals are gone
FinishRebalance ==
    /\ pc = "loop"
    /\ queue = <<>>
    /\ pc' = "idle"
    /\ jobToday' = None
    /\ outcome' = [u \in UserIds |-> "none"]
    /\ UNCHANGED <<today, users, budgets, expenses, runs, queue, cur,
                   arg, ret>>
    /\ reply' = "none"

-----------------------------------------------------------------------------
(* The clock.  The job is started at 09:00 and awaits only its sends: it   *)
(* is taken to end within the day it started.                              *)

AdvanceClock(d) ==
    /\ pc = "idle"
    /\ ~DateLE(d, today)
    /\ today' = d
    /\ runs' = [u \in UserIds |-> 0]
    /\ UNCHANGED <<users, budgets, expenses, rebalancerVars, arg, ret>>
    /\ reply' = "none"

Rebalancer ==
    \/ StartRebalance
    \/ \E fault \in {"none", "read", "write"} : ProcessUser(fault)
    \/ \E delivered \in BOOLEAN : CompleteSend(delivered)
    \/ FinishRebalance

\* One user holds a budget, through every date of the clock; the other
\* user logs expenses only.
Next ==
    \/ \E args \in BudgetArgs : SetBudget(1, args)
    \/ \E u \in UserIds, args \in ExpenseArgs : AddExpense(u, args)
    \/ TodaySummary(1)
    \/ SegmentSummary(1)
    \/ Rebalancer
    \/ \E d \in ClockDates : AdvanceClock(d)

Spec == Init /\ [][Next]_vars

\* Every user may hold a budget, within one day.
InitUsers ==
    /\ Init
    /\ today = Date(2024, 2, 6)

NextUsers ==
    \/ \E u \in UserIds, args \in FewBudgetArgs : SetBudget(u, args)
    \/ \E u \in UserIds, args \in FewExpenseArgs : AddExpense(u, args)
    \/ \E u \in UserIds : TodaySummary(u)
    \/ \E u \in UserIds : SegmentSummary(u)
    \/ Rebalancer

SpecUsers == InitUsers /\ [][NextUsers]_vars

-----------------------------------------------------------------------------
(* The segment calendar on its own *)

InitSeg ==
    /\ InitProgram
    /\ today = Date(2024, 2, 6)
    /\ arg \in CalendarDates
    /\ ret = None

ChooseDate(d) ==
    /\ arg' = d
    /\ ret' = None
    /\ UNCHANGED progVars

CallGetSegmentInfo ==
    /\ ret = None
    /\ ret' = Some(get_segment_info(arg))
    /\ UNCHANGED <<arg, progVars>>

NextSeg ==
    \/ \E d \in CalendarDates : ChooseDate(d)
    \/ CallGetSegmentInfo

SpecSeg == InitSeg /\ [][NextSeg]_vars

-----------------------------------------------------------------------------
(* Properties of get_segment_info, checked under SpecSeg *)

LastOfMonth(date) == Date(date.year, date.month, DaysInMonth(date.year, date.month))

\* C1: get_segment_info is total, and the three segments it gives for the
\* dates of a month partition the month: segment 1 is days 1-10, segment 2
\* days 11-20, segment 3 days 21 to the last; each date lies in its segment,
\* and each segment starts the day after the one before ends.
C1_SegmentsPartitionMonth ==
    ret # None =>
        LET s == Get(ret)
        IN  /\ s # SegmentError
            /\ s.segment \in {1, 2, 3}
            /\ arg.day <= 10 =>
                   s.segment = 1 /\ s.start_date.day = 1 /\ s.end_date.day = 10
            /\ (arg.day >= 11 /\ arg.day <= 20) =>
                   s.segment = 2 /\ s.start_date.day = 11 /\ s.end_date.day = 20
            /\ arg.day >= 21 =>
                   /\ s.segment = 3
                   /\ s.start_date.day = 21
                   /\ s.end_date = LastOfMonth(arg)
            /\ s.start_date.year = arg.year /\ s.start_date.month = arg.month
            /\ s.end_date.year = arg.year /\ s.end_date.month = arg.month
            /\ s.start_date.day <= arg.day /\ arg.day <= s.end_date.day
            /\ \A e \in MonthOf(arg) :
                   LET t == get_segment_info(e)
                   IN  /\ t # SegmentError
                       /\ t.start_date.day <= e.day /\ e.day <= t.end_date.day
                       /\ t.segment = s.segment =>
                              t.start_date = s.start_date /\ t.end_date = s.end_date
                       /\ t.segment = s.segment + 1 =>
                              t.start_date = NextDay(s.end_date)
                       /\ t.segment = 1 => t.start_date.day = 1
                       /\ t.segment = 3 => t.end_date = LastOfMonth(arg)

\* the last day of a first segment has been looked up
C1_Witness ==
    ret # None /\ arg.day = 10 /\ Get(ret).segment = 1

\* C2: for a date from day 21 on, end_date is the true last day of the
\* month, in leap and other years, so the third segment has 8 to 11 days.
C2_ThirdSegmentEndsMonth ==
    (ret # None /\ arg.day >= 21) =>
        LET s == Get(ret)
        IN  /\ s.end_date = Date(arg.year, arg.month,
                                 DaysInMonth(arg.year, arg.month))
            /\ NextDay(s.end_date).day = 1
            /\ s.days_in_segment >= 8 /\ s.days_in_segment <= 11
            /\ arg = Date(2024, 2, 21) => s.end_date = Date(2024, 2, 29)
            /\ arg = Date(2023, 2, 21) => s.end_date = Date(2023, 2, 28)

\* 21 February of the leap year has been looked up
C2_Witness ==
    /\ ret # None
    /\ arg = Date(2024, 2, 21)
    /\ Get(ret).end_date = Date(2024, 2, 29)
    /\ Get(ret).days_in_segment = 9

\* C3: days_passed + days_remaining = days_in_segment + 1, each of the
\* three counted inclusively from the dates.
C3_PassedPlusRemaining ==
    ret # None =>
        LET s == Get(ret)
        IN  /\ s.days_in_segment = DaysBetween(s.end_date, s.start_date) + 1
            /\ s.days_passed = DaysBetween(arg, s.start_date) + 1
            /\ s.days_remaining = DaysBetween(s.end_date, arg) + 1
            /\ s.days_passed + s.days_remaining = s.days_in_segment + 1

\* a date inside a second segment has been looked up
C3_Witness ==
    ret # None /\ arg.day = 15 /\ Get(ret).days_passed = 5
        /\ Get(ret).days_remaining = 6

AtSegmentEdge == ret # None /\ (arg = Get(ret).start_date \/ arg = Get(ret).end_date)

\* C4 as stated: on the first and on the last date of a segment,
\* days_passed + days_remaining = days_in_segment.
C4_EdgeSumsToLength ==
    AtSegmentEdge =>
        Get(ret).days_passed + Get(ret).days_remaining = Get(ret).days_in_segment

\* C4 amended: on the first and on the last date of a segment the two
\* inclusive counts sum to days_in_segment + 1: 1 and days_in_segment on the
\* first date, days_in_segment and 1 on the last.
C4_EdgeSumsToLengthPlusOne ==
    AtSegmentEdge =>
        LET s == Get(ret)
        IN  /\ s.days_passed + s.days_remaining = s.days_in_segment + 1
            /\ arg = s.start_date =>
                   s.days_passed = 1 /\ s.days_remaining = s.days_in_segment
            /\ arg = s.end_date =>
                   s.days_passed = s.days_in_segment /\ s.days_remaining = 1

\* the last date of a third segment has been looked up
C4_Witness ==
    AtSegmentEdge /\ arg = Get(ret).end_date /\ Get(ret).segment = 3

-----------------------------------------------------------------------------
(* Properties of the allowance calculator and of the daily job *)

HasBudget(u) == budgets[u] # NoBudget
Row(u) == Get(budgets[u])

\* the sum of the amounts user u has logged with a date from lo to hi, read
\* off the rows one by one
DateLeq(a, b) ==
    \/ a.year < b.year
    \/ a.year = b.year /\ a.month < b.month
    \/ a.year = b.year /\ a.month = b.month /\ a.day <= b.day

RECURSIVE LedgerSpendUpTo(_, _, _, _)
LedgerSpendUpTo(n, u, lo, hi) ==
    IF n = 0 THEN 0
    ELSE LedgerSpendUpTo(n - 1, u, lo, hi)
         + (IF /\ expenses[n].user_id = u
               /\ DateLeq(lo, expenses[n].expense_date)
               /\ DateLeq(expenses[n].expense_date, hi)
            THEN expenses[n].amount ELSE 0)

LedgerSpend(u, lo, hi) == LedgerSpendUpTo(Len(expenses), u, lo, hi)

\* the segment of today, from the calendar alone
TodaySegment == get_segment_info(today)
RemainingInSegment(u) ==
    Row(u).base_amount
        - LedgerSpend(u, TodaySegment.start_date, TodaySegment.end_date)

\* c cents is n / d rounded to the nearest cent, ties away from zero (d > 0)
NearestCent(c, n, d) ==
    /\ 2 * Abs(c * d - n) <= d
    /\ 2 * Abs(c * d - n) = d => Abs(c * d) > Abs(n)

\* C5 as stated: the effective daily budget of both summaries is the stored
\* adjusted_daily whenever last_adjustment_date is today, whatever its
\* value, and budget_per_day otherwise; remaining_today is that budget less
\* what was spent today.
C5_AdjustedRateUsedWhenDatedToday ==
    \A u \in UserIds :
        HasBudget(u) =>
            LET effective == IF Row(u).last_adjustment_date = today
                             THEN Row(u).adjusted_daily
                             ELSE Row(u).budget_per_day
                daily == Get(calculate_daily_summary(u))
                segment == Get(calculate_segment_summary(u))
            IN  /\ daily.current_daily_budget = effective
                /\ segment.current_daily_budget = effective
                /\ daily.remaining_today =
                       effective - LedgerSpend(u, today, today)

\* the job has just passed the head of its queue on to the send
RebalanceWrites(u) ==
    /\ pc = "loop"
    /\ queue # <<>>
    /\ Head(queue) = u
    /\ pc' = "send"

\* the job has just passed over the head of its queue, which has no budget
RebalanceSkips(u) ==
    /\ pc = "loop"
    /\ queue # <<>>
    /\ Head(queue) = u
    /\ ~HasBudget(u)
    /\ queue' = Tail(queue)

\* C6 as stated: once the job has processed a user with a budget, the
\* stored last_adjustment_date is today and the stored adjusted_daily is
\* exactly remaining_segment / days_remaining; a user without a budget is
\* passed over with no write.
C6_StoredRateIsExactQuotient ==
    [][\A u \in UserIds :
          /\ RebalanceWrites(u) =>
                 /\ HasBudget(u)'
                 /\ Row(u)'.last_adjustment_date = today
                 /\ Row(u)'.adjusted_daily * TodaySegment.days_remaining
                        = RemainingInSegment(u)
          /\ RebalanceSkips(u) => budgets' = budgets]_vars

\* C6 amended: the stored adjusted_daily is remaining_segment /
\* days_remaining rounded to the cent (ties away from zero), as the
\* DECIMAL(10, 2) column keeps it; days_remaining counts today and is at
\* least 1; nothing else of the row changes; a user without a budget is
\* passed over with no write.
C6_StoredRateIsRoundedQuotient ==
    [][\A u \in UserIds :
          /\ RebalanceWrites(u) =>
                 /\ HasBudget(u) /\ HasBudget(u)'
                 /\ Row(u)'.last_adjustment_date = today
                 /\ TodaySegment.days_remaining >= 1
                 /\ TodaySegment.days_remaining
                        = DaysBetween(TodaySegment.end_date, today) + 1
                 /\ NearestCent(Row(u)'.adjusted_daily, RemainingInSegment(u),
                                TodaySegment.days_remaining)
          /\ RebalanceSkips(u) => budgets' = budgets]_vars

\* the job has stored a rate that is not the exact quotient
C6_Witness ==
    /\ pc = "send"
    /\ LET u == Get(cur).user
       IN  /\ runs[u] = 1
           /\ Row(u).last_adjustment_date = today
           /\ Row(u).adjusted_daily * TodaySegment.days_remaining
                  # RemainingInSegment(u)

\* C7: remaining_segment is base_amount less the spend dated in today's
\* segment; suggested_daily is remaining_segment / (days_remaining - 1)
\* when days_remaining - 1 > 0 and Decimal(0), with no division, when it is
\* not; with 50 budgeted and 30 spent on day 6 of a 10-day segment it is 5.
C7_SuggestedDaily ==
    \A u \in UserIds :
        HasBudget(u) =>
            LET segment == Get(calculate_segment_summary(u))
                from_tomorrow == TodaySegment.days_remaining - 1
            IN  /\ segment.remaining_segment = RemainingInSegment(u)
                /\ segment.spent_segment =
                       LedgerSpend(u, TodaySegment.start_date, TodaySegment.end_date)
                /\ segment.days_remaining_from_tomorrow = from_tomorrow
                /\ from_tomorrow > 0 =>
                       /\ segment.suggested_daily.den > 0
                       /\ QuotEq(segment.suggested_daily,
                                 Quot(RemainingInSegment(u), from_tomorrow))
                /\ from_tomorrow <= 0 => segment.suggested_daily = DecimalZero
                /\ today = TodaySegment.end_date =>
                       segment.suggested_daily = DecimalZero
                /\ ( /\ Row(u).base_amount = 5000
                     /\ segment.spent_segment = 3000
                     /\ segment.days_passed = 6
                     /\ segment.days_in_segment = 10 ) =>
                       QuotEq(segment.suggested_daily, Quot(500, 1))

\* 50 budgeted, 30 spent, day 6 of a 10-day segment
C7_Witness ==
    \E u \in UserIds :
        /\ HasBudget(u)
        /\ Row(u).base_amount = 5000
        /\ Get(calculate_segment_summary(u)).spent_segment = 3000
        /\ Get(calculate_segment_summary(u)).days_passed = 6
        /\ Get(calculate_segment_summary(u)).days_in_segment = 10
        /\ \E e \in 1 .. Len(expenses) : expenses[e].user_id # u

NoExpenseOf(u) == \A e \in 1 .. Len(expenses) : expenses[e].user_id # u
FiveAndFifty(u) ==
    HasBudget(u) /\ Row(u).budget_per_day = 500 /\ Row(u).base_amount = 5000
        /\ NoExpenseOf(u)

\* C8 as stated: with budget_per_day 5, base_amount 50 and no expense
\* logged, remaining_today is 5 and remaining_segment is 50 in every state.
C8_FiveAndFiftyEveryDay ==
    \A u \in UserIds :
        FiveAndFifty(u) =>
            /\ Get(calculate_daily_summary(u)).remaining_today = 500
            /\ Get(calculate_segment_summary(u)).remaining_segment = 5000

\* C8 amended: with budget_per_day 5, base_amount 50 and no expense logged,
\* remaining_segment is 50 in every state; remaining_today is 5 unless a
\* non-zero adjusted_daily is dated today, and then it is that
\* adjusted_daily: right after the job has run, 50 / days_remaining rounded
\* to the cent.
C8_FiftyEveryDayFiveUnlessAdjusted ==
    \A u \in UserIds :
        FiveAndFifty(u) =>
            /\ Get(calculate_segment_summary(u)).remaining_segment = 5000
            /\ Get(calculate_daily_summary(u)).remaining_today =
                   IF Row(u).last_adjustment_date = today
                      /\ Row(u).adjusted_daily # 0
                   THEN Row(u).adjusted_daily
                   ELSE 500
            /\ runs[u] > 0 =>
                   /\ Row(u).last_adjustment_date = today
                   /\ NearestCent(Get(calculate_daily_summary(u)).remaining_today,
                                  5000, TodaySegment.days_remaining)

\* 5 and 50, nothing spent, and the job has run today: 10 on day 6 of 10
C8_Witness ==
    \E u \in UserIds :
        /\ FiveAndFifty(u)
        /\ runs[u] > 0
        /\ TodaySegment.days_remaining = 5
        /\ Get(calculate_daily_summary(u)).remaining_today = 1000
        /\ ~NoExpenseOf(3 - u)

\* the for loop of the job has come to its end
LoopOver == pc = "loop" /\ queue = <<>>

Failed(u) == outcome[u] \in {"error", "send_error"}

\* C9: an exception raised while the job processes one user does not end
\* the loop.  Every user of the list fetched is processed; each one that has a
\* budget at its turn, and whose own ledger calls do not raise, has its
\* adjustment stored with today's date and its message handed to the bot,
\* wherever the failing user stands in the list.
C9_FailureDoesNotAbortLoop ==
    /\ [](LoopOver =>
            \A b \in UserIds :
                /\ outcome[b] \notin {"pending", "sending"}
                /\ outcome[b] \in {"sent", "send_error"} =>
                       HasBudget(b) /\ Row(b).last_adjustment_date = Get(jobToday))
    /\ [][\A b \in UserIds :
            ( /\ pc = "loop"
              /\ queue # <<>>
              /\ Head(queue) = b
              /\ HasBudget(b)
              /\ outcome'[b] # "error" ) =>
                /\ pc' = "send"
                /\ Get(cur').user = b
                /\ outcome'[b] = "sending"
                /\ Row(b)'.last_adjustment_date = Get(jobToday)]_vars

\* one user's iteration has raised, and the job has gone on to store the
\* adjustment of another and is sending that one's message
C9_Witness ==
    /\ pc = "send"
    /\ \E a, b \in UserIds :
          /\ a # b
          /\ Failed(a)
          /\ Get(cur).user = b
          /\ Row(b).last_adjustment_date = Get(jobToday)
          /\ runs[b] = 1

\* C10: a second run of the job on the same day, with no expense added and
\* no budget set for a user since the first, leaves the user's stored
\* adjusted_daily and last_adjustment_date as the first run left them.
C10_SecondRunChangesNothing ==
    [][\A u \in UserIds :
          (runs[u] > 0 /\ RebalanceWrites(u)) =>
              /\ Row(u)'.adjusted_daily = Row(u).adjusted_daily
              /\ Row(u)'.last_adjustment_date = Row(u).last_adjustment_date
              /\ budgets' = budgets]_vars

\* the job has rewritten a user's adjustment a second time on one day, the
\* stored rate being an adjusted one
C10_Witness ==
    \E u \in UserIds :
        /\ runs[u] = 2
        /\ Row(u).last_adjustment_date = today
        /\ Row(u).adjusted_daily # Row(u).budget_per_day
        /\ LedgerSpend(u, TodaySegment.start_date, TodaySegment.end_date) > 0

-----------------------------------------------------------------------------
(* One user alone, through every date of the clock *)

NextDays ==
    \/ \E args \in BudgetArgs : SetBudget(1, args)
    \/ \E args \in ExpenseArgs : AddExpense(1, args)
    \/ TodaySummary(1)
    \/ SegmentSummary(1)
    \/ Rebalancer
    \/ \E d \in ClockDates : AdvanceClock(d)

SpecDays == Init /\ [][NextDays]_vars

-----------------------------------------------------------------------------
(* Two users who set budgets and log expenses while the job runs *)

RaceBudgetArgs == { <<Tok(500), Tok(5000)>>, <<Tok(200), Tok(3001)>> }
RaceExpenseArgs == { <<Tok(3000)>> }

NextRace ==
    \/ \E u \in UserIds, args \in RaceBudgetArgs : SetBudget(u, args)
    \/ \E u \in UserIds, args \in RaceExpenseArgs : AddExpense(u, args)
    \/ Rebalancer

SpecRace == InitUsers /\ [][NextRace]_vars

-----------------------------------------------------------------------------
(* The new-segment test through the dates of two years: a budget is set    *)
(* and set again while the clock moves on, and the summaries are asked for *)

\* a first, a second and a third segment of one month, a first and a second
\* segment of the next month, and the same three a year later
ResetDates ==
    { Date(2024, 2, 5), Date(2024, 2, 10), Date(2024, 2, 11), Date(2024, 2, 25),
      Date(2024, 3, 5), Date(2024, 3, 11),
      Date(2025, 2, 5), Date(2025, 2, 11), Date(2025, 2, 25) }

InitReset ==
    /\ today \in ResetDates
    /\ users = {}
    /\ budgets = [u \in UserIds |-> NoBudget]
    /\ expenses = <<>>
    /\ reply = "none"
    /\ pc = "idle"
    /\ queue = <<>>
    /\ cur = None
    /\ jobToday = None
    /\ outcome = [u \in UserIds |-> "none"]
    /\ runs = [u \in UserIds |-> 0]
    /\ arg = Date(2024, 1, 1)
    /\ ret = None

NextReset ==
    \/ \E args \in FewBudgetArgs : SetBudget(1, args)
    \/ TodaySummary(1)
    \/ SegmentSummary(1)
    \/ \E d \in ResetDates : AdvanceClock(d)

SpecReset == InitReset /\ [][NextReset]_vars

-----------------------------------------------------------------------------
(* Properties of check_segment_reset, checked under SpecReset *)

\* the index of the segment a date lies in, from the day of the month
SegmentIndex(date) == IF date.day <= 10 THEN 1 ELSE IF date.day <= 20 THEN 2 ELSE 3

\* C11: for a user with a budget check_segment_reset is true exactly when
\* the segment index of today differs from that of the date the budget was
\* last updated or the two dates differ in their month; it is true for an
\* update in segment 1 and today in segment 2 of one month, false when both
\* lie in segment 1 of one month; for a user with no budget it is false.
C11_ResetIffSegmentOrMonthDiffers ==
    \A u \in UserIds :
        /\ ~HasBudget(u) => check_segment_reset(u) = FALSE
        /\ HasBudget(u) =>
               /\ check_segment_reset(u) =
                      (\/ SegmentIndex(today) # SegmentIndex(Row(u).updated_at)
                       \/ today.month # Row(u).updated_at.month)
               /\ ( /\ Row(u).updated_at = Date(2024, 2, 5)
                    /\ today = Date(2024, 2, 11) ) => check_segment_reset(u)
               /\ ( /\ Row(u).updated_at = Date(2024, 2, 5)
                    /\ today = Date(2024, 2, 10) ) => ~check_segment_reset(u)

\* the budget was last set in segment 1, today is the first day of segment
\* 2 of that month, and segment_summary has shown its new-segment banner
C11_Witness ==
    /\ HasBudget(1)
    /\ Row(1).updated_at = Date(2024, 2, 5)
    /\ today = Date(2024, 2, 11)
    /\ check_segment_reset(1)
    /\ reply = "done_new_segment"
    /\ ~HasBudget(2) /\ ~check_segment_reset(2)

\* C17: check_segment_reset is false only when today and the date the
\* budget was last updated lie in one segment of one month of one year; it
\* is true whenever they lie in different segments, those of the same month
\* and index of different years included.
C17_ResetFalseOnlyInSameSegmentInstance ==
    \A u \in UserIds :
        HasBudget(u) =>
            (check_segment_reset(u) = FALSE <=>
                /\ today.year = Row(u).updated_at.year
                /\ today.month = Row(u).updated_at.month
                /\ SegmentIndex(today) = SegmentIndex(Row(u).updated_at))

-----------------------------------------------------------------------------
(* Properties of the command handlers *)

\* an amount that is no number or is not positive
BadAmount(token) == ~token.numeric \/ token.cents <= 0

\* C12: /setbudget with an amount that is no number or not positive, and
\* /add with such an amount, write nothing (budgets and expenses stay as
\* they are) and end with the invalid-input reply, not with an exception
\* that nothing catches.
C12_BadAmountsRejectedBeforeWrite ==
    [][/\ \A u \in UserIds, args \in BudgetArgs \cup FewBudgetArgs :
             ( /\ Len(args) >= 2
               /\ BadAmount(args[1]) \/ BadAmount(args[2])
               /\ SetBudget(u, args) ) =>
                    /\ budgets' = budgets
                    /\ expenses' = expenses
                    /\ reply' = "invalid"
       /\ \A u \in UserIds, args \in ExpenseArgs \cup FewExpenseArgs :
             ( /\ Len(args) >= 1
               /\ BadAmount(args[1])
               /\ AddExpense(u, args) ) =>
                    /\ budgets' = budgets
                    /\ expenses' = expenses
                    /\ reply' = "invalid"]_vars

\* C13: calculate_daily_summary and calculate_segment_summary return None
\* exactly when the user has no budget; with a budget both return a summary,
\* also when more was spent than budgeted; /today and /segment answer an
\* absent summary with their no-budget reply, as a normal return.
C13_SummaryAbsentIffNoBudget ==
    /\ [](\A u \in UserIds :
             /\ calculate_daily_summary(u) = None <=> ~HasBudget(u)
             /\ calculate_segment_summary(u) = None <=> ~HasBudget(u)
             /\ HasBudget(u) =>
                    /\ Get(calculate_daily_summary(u)).spent_today
                           = LedgerSpend(u, today, today)
                    /\ Get(calculate_segment_summary(u)).remaining_segment
                           = RemainingInSegment(u))
    /\ [][\A u \in UserIds :
             (TodaySummary(u) \/ SegmentSummary(u)) =>
                 /\ reply' = "not_configured" <=> ~HasBudget(u)
                 /\ reply' # "exception"]_vars

\* one user has spent more than the segment budget and more than today's
\* budget and still gets both summaries, the other has no budget and has
\* just been told so
C13_Witness ==
    /\ HasBudget(1)
    /\ Get(calculate_segment_summary(1)).remaining_segment < 0
    /\ Get(calculate_daily_summary(1)).remaining_today < 0
    /\ ~HasBudget(2)
    /\ calculate_daily_summary(2) = None
    /\ calculate_segment_summary(2) = None
    /\ 2 \in users
    /\ reply = "not_configured"

\* /setbudget with two positive amounts has just replaced the budget user u
\* already had
SetBudgetReplaces(u, args) ==
    /\ HasBudget(u)
    /\ Len(args) >= 2
    /\ ~BadAmount(args[1]) /\ ~BadAmount(args[2])
    /\ SetBudget(u, args)

\* C14: set_budget on a user who has a budget overwrites budget_per_day,
\* base_amount and updated_at and leaves adjusted_daily and
\* last_adjustment_date as they were; so when the adjustment is dated today
\* (the job has run today), calculate_daily_summary after the /setbudget
\* still reports the old adjusted_daily as today's budget.
C14_SetBudgetKeepsAdjustment ==
    [][\A u \in UserIds, args \in BudgetArgs \cup FewBudgetArgs :
          SetBudgetReplaces(u, args) =>
              /\ Row(u)'.budget_per_day = args[1].cents
              /\ Row(u)'.base_amount = args[2].cents
              /\ Row(u)'.updated_at = today
              /\ Row(u)'.adjusted_daily = Row(u).adjusted_daily
              /\ Row(u)'.last_adjustment_date = Row(u).last_adjustment_date
              /\ Row(u).last_adjustment_date = today =>
                     Get(calculate_daily_summary(u))'.current_daily_budget
                         = Row(u).adjusted_daily]_vars

-----------------------------------------------------------------------------
(* Properties of the daily job, checked under SpecDays and SpecUsers *)

\* C15: a step of send_daily_notification changes nothing stored but the
\* adjusted_daily and last_adjustment_date of a budget: budget_per_day,
\* base_amount and updated_at of every budget stay, no budget and no user
\* appears or disappears, the expenses stay; /today and /segment, which
\* call check_segment_reset, calculate_daily_summary and
\* calculate_segment_summary, leave budgets and expenses as they are.
C15_JobWritesOnlyTheAdjustment ==
    [][/\ Rebalancer =>
              /\ expenses' = expenses
              /\ users' = users
              /\ \A u \in UserIds :
                    /\ HasBudget(u)' <=> HasBudget(u)
                    /\ HasBudget(u) =>
                           /\ Row(u)'.budget_per_day = Row(u).budget_per_day
                           /\ Row(u)'.base_amount = Row(u).base_amount
                           /\ Row(u)'.updated_at = Row(u).updated_at
       /\ \A u \in UserIds :
              (TodaySummary(u) \/ SegmentSummary(u)) =>
                  /\ budgets' = budgets
                  /\ expenses' = expenses]_vars

\* the job has rewritten the adjustment of a budget that was last set on an
\* earlier date, with an expense in the ledger
C15_Witness ==
    /\ pc = "send"
    /\ LET u == Get(cur).user
       IN  /\ Row(u).last_adjustment_date = today
           /\ Row(u).updated_at # today
           /\ Row(u).adjusted_daily # Row(u).budget_per_day
           /\ Len(expenses) > 0

\* user u has logged no expense dated in the segment of today
NothingSpentInSegment(u) ==
    \A e \in 1 .. Len(expenses) :
        expenses[e].user_id = u =>
            ~ ( /\ DateLeq(TodaySegment.start_date, expenses[e].expense_date)
                /\ DateLeq(expenses[e].expense_date, TodaySegment.end_date) )

\* what user u has logged over all dates
SpentEver(u) == LedgerSpend(u, Date(1, 1, 1), Date(9999, 12, 31))

\* for a user with no expense dated in today's segment the segment summary
\* is that of an empty ledger, whatever the ledger holds for other dates
OutsideExpensesIgnored ==
    \A u \in UserIds :
        (HasBudget(u) /\ NothingSpentInSegment(u)) =>
            LET segment == Get(calculate_segment_summary(u))
            IN  /\ segment.spent_segment = 0
                /\ segment.remaining_segment = Row(u).base_amount
                /\ segment.days_remaining > 1 =>
                       QuotEq(segment.suggested_daily,
                              Quot(Row(u).base_amount,
                                   segment.days_remaining - 1))

\* C16 as stated: when the job runs on day 1, 11 or 21 for a user with no
\* expense dated in the segment that begins, the adjusted_daily it stores is
\* exactly base_amount / days_in_segment whatever was spent before;
\* expenses dated outside today's segment never enter remaining_segment,
\* suggested_daily or the rate the job stores.
C16_FirstDayRateIsExactShare ==
    /\ []OutsideExpensesIgnored
    /\ [][\A u \in UserIds :
             (RebalanceWrites(u) /\ NothingSpentInSegment(u)) =>
                 /\ Row(u)'.adjusted_daily * TodaySegment.days_remaining
                        = Row(u).base_amount
                 /\ today.day \in {1, 11, 21} =>
                        Row(u)'.adjusted_daily * TodaySegment.days_in_segment
                            = Row(u).base_amount]_vars

\* C16 amended: on day 1, 11 or 21, with no expense dated in the segment
\* that begins, the job stores base_amount / days_in_segment rounded to the
\* cent, whatever was spent before; on every day, for a user with no
\* expense dated in today's segment, remaining_segment is base_amount,
\* suggested_daily is base_amount / (days_remaining - 1) and the job stores
\* base_amount / days_remaining rounded to the cent, whatever the ledger
\* holds for other dates.
C16_FirstDayRateIsRoundedShare ==
    /\ []OutsideExpensesIgnored
    /\ [][\A u \in UserIds :
             (RebalanceWrites(u) /\ NothingSpentInSegment(u)) =>
                 /\ NearestCent(Row(u)'.adjusted_daily, Row(u).base_amount,
                                TodaySegment.days_remaining)
                 /\ today.day \in {1, 11, 21} =>
                        /\ TodaySegment.days_remaining
                               = TodaySegment.days_in_segment
                        /\ NearestCent(Row(u)'.adjusted_daily,
                                       Row(u).base_amount,
                                       TodaySegment.days_in_segment)]_vars

\* the job has run on the first day of a segment for a user who spent more
\* than the budget in an earlier segment and nothing in this one, and has
\* stored the full share
C16_Witness ==
    /\ pc = "send"
    /\ today.day \in {1, 11, 21}
    /\ LET u == Get(cur).user
       IN  /\ NothingSpentInSegment(u)
           /\ SpentEver(u) > Row(u).base_amount
           /\ Row(u).last_adjustment_date = today
           /\ Row(u).adjusted_daily * TodaySegment.days_in_segment
                  = Row(u).base_amount

\* a command has just written: an expense was logged, or a budget was
\* created or its budget_per_day, base_amount or updated_at set
HandlerWrites ==
    \/ expenses' # expenses
    \/ \E u \in UserIds :
           /\ budgets'[u] # budgets[u]
           /\ \/ ~HasBudget(u)
              \/ Row(u)'.budget_per_day # Row(u).budget_per_day
              \/ Row(u)'.base_amount # Row(u).base_amount
              \/ Row(u)'.updated_at # Row(u).updated_at

\* the job has written the adjustment of a user and no command has been
\* handled since: every command handler leaves a reply
JustWritten == pc = "send" /\ reply = "none"

\* C18 as stated: a /setbudget or /add runs only while the job is not
\* running or is suspended in its send, never between the job's reads for a
\* user and its write; so right after the job's write for a user the stored
\* adjusted_daily is exactly (base_amount as stored now - spend in today's
\* segment as logged now) / days_remaining.
C18_WriteUsesCurrentStateExactly ==
    /\ [][(pc \notin {"idle", "send"} \/ pc' # pc) => ~HandlerWrites]_vars
    /\ [](JustWritten =>
              Row(Get(cur).user).adjusted_daily * TodaySegment.days_remaining
                  = RemainingInSegment(Get(cur).user))

\* C18 amended: a /setbudget or /add runs only while the job is not running
\* or is suspended in its send; the job's write for a user comes in one
\* step with its reads, so right after it the stored adjusted_daily is
\* (base_amount as stored now - spend in today's segment as logged now) /
\* days_remaining rounded to the cent, dated today, and the step changes
\* neither the expenses nor any other user's budget.
C18_WriteUsesCurrentStateRounded ==
    /\ [][(pc \notin {"idle", "send"} \/ pc' # pc) => ~HandlerWrites]_vars
    /\ [][\A u \in UserIds :
              RebalanceWrites(u) =>
                  /\ JustWritten'
                  /\ expenses' = expenses
                  /\ \A v \in UserIds \ {u} : budgets'[v] = budgets[v]]_vars
    /\ [](JustWritten =>
              /\ HasBudget(Get(cur).user)
              /\ Row(Get(cur).user).last_adjustment_date = today
              /\ NearestCent(Row(Get(cur).user).adjusted_daily,
                             RemainingInSegment(Get(cur).user),
                             TodaySegment.days_remaining))

\* while the job is suspended in the send for one user, the other user has
\* set a budget or logged an expense, and the rate stored for some user is
\* no longer the one the present budget and ledger give
C18_Witness ==
    /\ pc = "send"
    /\ reply = "done"
    /\ queue # <<>>
    /\ runs[Head(queue)] = 0
    /\ HasBudget(Head(queue))
    /\ ~NearestCent(Row(Head(queue)).adjusted_daily,
                    RemainingInSegment(Head(queue)),
                    TodaySegment.days_remaining)
    /\ runs[Get(cur).user] = 1

====
